---- MODULE Spec2Model ----
(***************************************************************************)
(* State-machine model of the SMTP client of smtp-edc                      *)
(* (internal/client: SMTPClient; internal/message: Message;                *)
(* cmd/smtp-edc: main).  One variable per field of SMTPClient, one action  *)
(* per step of an operation; the peer (network and SMTP server) is the     *)
(* nondeterministic environment.                                           *)
(***************************************************************************)
EXTENDS Integers, Sequences, FiniteSets, TLC

VARIABLES
    conn,          \* SMTPClient.conn: the transport handle (NilConn = nil)
    reader,        \* SMTPClient.reader: handle the bufio.Reader wraps
    writer,        \* SMTPClient.writer: handle the bufio.Writer wraps
    retry,         \* SMTPClient.retry: [MaxAttempts, Delay]
    timeout,       \* SMTPClient.timeout (seconds)
    hostname,      \* SMTPClient.hostname
    debug,         \* SMTPClient.debug
    capabilities,  \* SMTPClient.capabilities
    pc,            \* position of the running operation ("idle": none runs)
    op,            \* name of the operation running under withRetry
    attempt,       \* withRetry: loop variable
    lastErr,       \* withRetry: lastErr
    err,           \* withRetry: value returned by the last call of fn
    ret,           \* value returned by the last API call to its caller
    msg,           \* SendMessage: the message argument
    uniq,          \* send bodies: uniqueRecipients
    idx,           \* send bodies: index of the recipient loops
    netOpen,       \* environment: sockets dialed and not closed
    broken,        \* environment: sockets on which I/O has failed for good
    dials,         \* environment: number of successful dials so far
    srvIn,         \* environment: lines received by the server, unanswered
    srvMode,       \* environment: "cmd" or "data" (server reads a body)
    srvPart,       \* environment: continuation lines sent of the head reply
    calls,         \* history: invocations of fn in this withRetry call
    fails,         \* history: invocations of fn that returned an error
    sleeps,        \* history: time.Sleep calls in this withRetry call
    sent,          \* history: lines written in the current attempt
    nreads,        \* history: readResponse calls in the current attempt
    lastLine,      \* history: the line returned by the last readResponse
    rejected,      \* history: MAIL/RCPT answered non-2xx in this attempt
    dataReply,     \* history: code class of the line read after DATA
    dialed,        \* history: a dial was made in the current attempt
    sendCalled,    \* history: the caller has called SendMessage
    authArgs,      \* Authenticate: its arguments (NoAuth: not called)
    tls,           \* SMTPClient.tls
    response,      \* Ehlo: the lines collected in its strings.Builder
    mainPc,        \* main: the step it stands at ("lib": no main runs)
    opts,          \* main: the options of the run (viper)
    steps,         \* history: the calls that returned to the caller
    certValid,     \* environment: the server's certificate verifies
    tlsSocks,      \* environment: sockets that carry a TLS session
    handshakes,    \* history: TLS handshakes started by StartTLS
    closes,        \* history: sockets SMTPClient.Close has closed, in order
    rcptAccepted,  \* history: a RCPT TO was answered 2xx in this attempt
    lastIO,        \* history: handle of the last read or write made
    setArgs        \* history: arguments of the last SetRetryConfig/SetTimeout

vars == <<conn, reader, writer, retry, timeout, capabilities, pc, op, attempt,
          lastErr, err, ret, msg, uniq, idx, netOpen, broken, dials, srvIn,
          srvMode, srvPart, calls, fails, sleeps, sent, nreads, lastLine,
          rejected, dataReply, dialed, sendCalled, authArgs, tls, response,
          mainPc, opts, steps, certValid, tlsSocks, handshakes, closes,
          rcptAccepted, lastIO, hostname, debug, setArgs>>

clientVars == <<conn, reader, writer, retry, timeout, hostname, debug,
                capabilities, tls>>
envVars    == <<netOpen, broken, dials, srvIn, srvMode, srvPart>>
(* what belongs to the caller and to the run as a whole *)
callerVars == <<mainPc, opts, steps, certValid, setArgs>>
runVars    == <<response, callerVars, tlsSocks, handshakes, closes>>
argVars    == <<msg, sendCalled, authArgs, runVars>>
sendVars   == <<argVars, uniq, idx>>
attemptHist == <<sent, nreads, lastLine, rejected, dataReply, dialed,
                 rcptAccepted, lastIO>>

----------------------------------------------------------------------------
(* Bounds of the model *)

MaxRetries == 3        \* largest maxAttempts / 'retries' option tried
MaxReplyLines == 2     \* lines of one server reply (1 = single-line)
MaxSendAttempts == 2   \* largest maxAttempts of a client that sends
MaxTo == 1             \* longest To list
MaxCc == 1             \* longest Cc list
MaxBcc == 1            \* longest Bcc list
MaxDelegations == 4     \* depth to which a chain of delegations is followed
MaxCalls == 3          \* calls a library user makes on a connected client

(* Program constants *)

DefaultMaxAttempts == 3
DefaultDelay == 2
DefaultTimeout == 30

----------------------------------------------------------------------------
(* Values *)

NilConn == [sock |-> 0, layer |-> "none"]
PlainConn(s) == [sock |-> s, layer |-> "plain"]
TLSConn(s) == [sock |-> s, layer |-> "tls"]

NoErr == [e |-> "nil"]
Pending == [e |-> "pending"]
Err(text) == [e |-> text]

NoPart == [n |-> 0, code |-> 0]

(* a line written by the client, and a reply line read by it *)
Line(c, a) == [cmd |-> c, arg |-> a]
NoLine == [cmd |-> "none", code |-> 0, final |-> FALSE]

NoAuth == [type |-> "", username |-> "", password |-> ""]

NoOpts ==
    [starttls |-> FALSE, skip_verify |-> FALSE, auth_type |-> "",
     username |-> "", password |-> "", server |-> "", from |-> "",
     to |-> "", cc |-> "", bcc |-> "", subject |-> "", body |-> "",
     retries |-> DefaultMaxAttempts, timeout |-> DefaultTimeout]

NoCapabilities ==
    [Pipelining |-> FALSE, StartTLS |-> FALSE, Auth |-> <<>>, Size |-> 0,
     EightBit |-> FALSE]

NoMessage ==
    [From |-> "", To |-> <<>>, Cc |-> <<>>, Bcc |-> <<>>, Subject |-> "",
     Body |-> "", HTMLBody |-> "", Attachments |-> 0, DateSet |-> FALSE]

(* Inputs *)

AttemptsOpt == -1 .. MaxRetries      \* int maxAttempts / 'retries' option
DelayOpt == {-1, 0, 5}               \* seconds; 'timeout' option in main
SetTimeoutOpt == {0, 5, 60}          \* seconds; argument of SetTimeout
Hostnames == {"localhost", "client.example.org"}
NoArgs == <<>>

----------------------------------------------------------------------------
(* withRetry (the retry wrapper)                                           *)

(* the error returned on exhaustion: "%s failed after %d attempts: %v" *)
WrappedErr(operation, n, cause) ==
    [e |-> "failed after attempts", op |-> operation, attempts |-> n,
     cause |-> cause.e]

(* line 74: the loop condition *)
retryContinues(a, cfg) == a <= cfg.MaxAttempts

sleepsAfterFailureAlways(a, cfg) == a <= cfg.MaxAttempts
(* line 81: a failed attempt is followed by a sleep and another attempt *)
sleepsAfterFailure(a, cfg) == a < cfg.MaxAttempts

RetryOps == {"Send", "connect", "send message", "send pipelined message"}

FnEntryResumes(operation) ==
    CASE operation = "Send" -> "sendmail"
      [] operation = "connect" -> "conn_check"
      [] operation = "send message" ->
           IF attempt > 1 THEN "seq_data" ELSE "seq_mail"
      [] operation = "send pipelined message" ->
           IF attempt > 1 THEN "pip_data" ELSE "pip_mail"
(* where fn starts, per operation: every attempt calls fn from its top *)
FnEntry(operation) ==
    CASE operation = "Send" -> "sendmail"
      [] operation = "connect" -> "conn_check"
      [] operation = "send message" -> "seq_mail"
      [] operation = "send pipelined message" -> "pip_mail"

BeginRetry(operation) ==
    /\ op' = operation
    /\ attempt' = 1
    /\ lastErr' = NoErr
    /\ err' = NoErr
    /\ ret' = Pending
    /\ calls' = 0
    /\ fails' = 0
    /\ sleeps' = 0
    /\ pc' = "retry_loop"

ResetAttemptHist ==
    /\ sent' = <<>>
    /\ nreads' = 0
    /\ lastLine' = NoLine
    /\ rejected' = FALSE
    /\ dataReply' = 0
    /\ dialed' = FALSE
    /\ rcptAccepted' = FALSE
    /\ lastIO' = NilConn

(* lines 74, 90: test the loop condition; enter fn or fall out of the loop *)
RetryLoop ==
    /\ pc = "retry_loop"
    /\ IF retryContinues(attempt, retry)
         THEN /\ pc' = FnEntry(op)
              /\ calls' = calls + 1
              /\ ret' = ret
              /\ ResetAttemptHist
         ELSE /\ pc' = "idle"
              /\ ret' = lastErr
              /\ UNCHANGED <<calls, attemptHist>>
    /\ UNCHANGED <<clientVars, envVars, sendVars, op, attempt, lastErr, err,
                   fails, sleeps>>

(* lines 75-88: fn has returned err *)
RetryFnReturn ==
    /\ pc = "fn_ret"
    /\ IF err # NoErr
         THEN /\ lastErr' = err
              /\ fails' = fails + 1
              /\ IF sleepsAfterFailure(attempt, retry)
                   THEN /\ sleeps' = sleeps + 1
                        /\ attempt' = attempt + 1
                        /\ pc' = "retry_loop"
                        /\ ret' = ret
                   ELSE /\ ret' = WrappedErr(op, retry.MaxAttempts, err)
                        /\ pc' = "idle"
                        /\ UNCHANGED <<sleeps, attempt>>
         ELSE /\ ret' = NoErr
              /\ pc' = "idle"
              /\ UNCHANGED <<lastErr, fails, sleeps, attempt>>
    /\ UNCHANGED <<clientVars, envVars, sendVars, op, err, calls, attemptHist>>

----------------------------------------------------------------------------
(* NewSMTPClient, SetRetryConfig, SetTimeout, Send                          *)

NewSMTPClient(h, d) ==
    /\ conn = NilConn
    /\ reader = NilConn
    /\ writer = NilConn
    /\ hostname = h
    /\ debug = d
    /\ retry = [MaxAttempts |-> DefaultMaxAttempts, Delay |-> DefaultDelay]
    /\ timeout = DefaultTimeout
    /\ capabilities = NoCapabilities
    /\ tls = FALSE

NoEnv ==
    /\ netOpen = {}
    /\ broken = {}
    /\ dials = 0
    /\ srvIn = <<>>
    /\ srvMode = "cmd"
    /\ srvPart = NoPart

Quiescent ==
    /\ pc = "idle"
    /\ op = "none"
    /\ attempt = 1
    /\ lastErr = NoErr
    /\ err = NoErr
    /\ ret = Pending
    /\ calls = 0
    /\ fails = 0
    /\ sleeps = 0
    /\ sent = <<>>
    /\ nreads = 0
    /\ lastLine = NoLine
    /\ rejected = FALSE
    /\ dataReply = 0
    /\ dialed = FALSE
    /\ uniq = <<>>
    /\ idx = 0
    /\ sendCalled = FALSE
    /\ authArgs = NoAuth
    /\ rcptAccepted = FALSE
    /\ lastIO = NilConn
    /\ response = <<>>
    /\ steps = <<>>
    /\ tlsSocks = {}
    /\ handshakes = 0
    /\ closes = <<>>
    /\ setArgs = NoArgs

(* no main runs: the client is used as a library *)
NoMain ==
    /\ mainPc = "lib"
    /\ opts = NoOpts
    /\ certValid = TRUE

(* a setter that raises a non-positive attempt count to 1 *)
setRetryConfigClamped(maxAttempts, delay) ==
    [MaxAttempts |-> IF maxAttempts < 1 THEN 1 ELSE maxAttempts,
     Delay |-> delay]

(* lines 62-63: what SetRetryConfig stores *)
setRetryConfigValue(maxAttempts, delay) ==
    [MaxAttempts |-> maxAttempts, Delay |-> delay]

(* SetRetryConfig(maxAttempts, delay); main calls it with the 'retries'   *)
(* option and the 'timeout' option in seconds.  It returns no value.       *)
SetRetryConfig ==
    /\ pc = "idle"
    /\ \E m \in AttemptsOpt, d \in DelayOpt :
          /\ retry' = setRetryConfigValue(m, d)
          /\ setArgs' = <<m, d>>
    /\ op' = "SetRetryConfig"
    /\ ret' = Pending
    /\ UNCHANGED <<conn, reader, writer, timeout, hostname, debug,
                   capabilities, tls, envVars, msg, sendCalled, authArgs,
                   response, mainPc, opts, steps, certValid, tlsSocks,
                   handshakes, closes, uniq, idx, pc, attempt, lastErr, err,
                   calls, fails, sleeps, attemptHist>>

(* line 68: what SetTimeout stores *)
setTimeoutValue(t) == t

(* SetTimeout(timeout).  It returns no value. *)
SetTimeout ==
    /\ pc = "idle"
    /\ \E t \in SetTimeoutOpt :
          /\ timeout' = setTimeoutValue(t)
          /\ setArgs' = <<t>>
    /\ op' = "SetTimeout"
    /\ ret' = Pending
    /\ UNCHANGED <<conn, reader, writer, retry, hostname, debug,
                   capabilities, tls, envVars, msg, sendCalled, authArgs,
                   response, mainPc, opts, steps, certValid, tlsSocks,
                   handshakes, closes, uniq, idx, pc, attempt, lastErr, err,
                   calls, fails, sleeps, attemptHist>>

(* Send: withRetry("Send", smtp.SendMail) *)
Send ==
    /\ pc = "idle"
    /\ BeginRetry("Send")
    /\ UNCHANGED <<clientVars, envVars, sendVars, attemptHist>>

(* the body of Send's fn: smtp.SendMail succeeds or fails *)
SendMailCall ==
    /\ pc = "sendmail"
    /\ \E e \in {NoErr, Err("sendmail error"), Err("connection refused")} :
          err' = e
    /\ pc' = "fn_ret"
    /\ UNCHANGED <<clientVars, envVars, sendVars, op, attempt, lastErr, ret,
                   calls, fails, sleeps, attemptHist>>

----------------------------------------------------------------------------
(* The transport and the peer                                              *)

(* a step of main may start: main stands at it and has taken the result  *)
(* of the step before (a library user calls at will)                      *)
MainAllows(operation) ==
    mainPc = "lib" \/ (mainPc = operation /\ ret = Pending)

(* I/O on handle h can succeed: the socket is open and has not failed *)
(* and the handle is of the layer the peer speaks on that socket       *)
Usable(h) ==
    /\ h.sock # 0
    /\ h.sock \in netOpen
    /\ h.sock \notin broken
    /\ (h.layer = "tls") = (h.sock \in tlsSocks)

(* I/O failed on handle h: the socket, if still open, stays failed *)
Fail(h) == IF h.sock \in netOpen THEN broken \cup {h.sock} ELSE broken

(* the server in data mode takes every line but "." as message text *)
RECURSIVE SkipData(_, _)
SkipData(q, mode) ==
    IF q # <<>> /\ mode = "data" /\ Head(q).cmd # "."
      THEN SkipData(Tail(q), mode)
      ELSE q

(* code classes (first digit) a server may answer a line with; in an    *)
(* authentication exchange ("auth") it asks for more (3) after the user  *)
(* name and ends the exchange (2, 5) after any other credential line     *)
ReplyCodes(l, mode) ==
    IF mode = "data" THEN {2, 4, 5}
    ELSE IF mode = "auth"
      THEN IF l.cmd = "CRED" /\ l.arg = "username" THEN {3, 5}
           ELSE IF l.cmd = "CRED" THEN {2, 5} ELSE {5}
    ELSE CASE l.cmd \in {"GREET", "MAIL", "RCPT", "STARTTLS"} -> {2, 4, 5}
           [] l.cmd = "EHLO" -> {2, 5}
           [] l.cmd = "DATA" -> {3, 4, 5}
           [] l.cmd = "AUTH" -> {3, 5}
           [] l.cmd = "QUIT" -> {2}
           [] OTHER -> {5}

(* server state after it has sent the final line of its reply to l *)
ModeAfter(l, c, mode) ==
    IF mode = "data" THEN "cmd"
    ELSE IF mode = "auth" THEN (IF c = 3 THEN "auth" ELSE "cmd")
    ELSE IF l.cmd = "DATA" /\ c = 3 THEN "data"
    ELSE IF l.cmd = "AUTH" /\ c = 3 THEN "auth"
    ELSE mode

(* a challenge sent as bare base64 text, without code and separator: its *)
(* 4th character is not a space                                          *)
BareLine(c) == [cmd |-> c, code |-> 0, final |-> FALSE]

(* lines 320-331: readResponse reads ONE line from the reader; it fails   *)
(* when the transport fails or the deadline passes with nothing to read.  *)
(* An outcome is the line and the state the peer is left in.               *)
readLine(hd) ==
    LET q == SkipData(srvIn, srvMode) IN
    {[ok |-> FALSE, line |-> NoLine, in |-> srvIn, mode |-> srvMode,
      part |-> srvPart]}
    \cup
    (IF Usable(hd) /\ q # <<>>
       THEN LET h == Head(q)
                codes == IF srvPart.n > 0 THEN {srvPart.code}
                         ELSE ReplyCodes(h, srvMode)
            IN {[ok |-> TRUE,
                 line |-> [cmd |-> h.cmd, code |-> c, final |-> TRUE],
                 in |-> Tail(q), mode |-> ModeAfter(h, c, srvMode),
                 part |-> NoPart] : c \in codes}
               \cup
               (IF srvPart.n + 1 < MaxReplyLines
                  THEN {[ok |-> TRUE,
                         line |-> [cmd |-> h.cmd, code |-> c, final |-> FALSE],
                         in |-> q, mode |-> srvMode,
                         part |-> [n |-> srvPart.n + 1, code |-> c]]
                        : c \in codes}
                  ELSE {})
               \cup
               (IF h.cmd = "AUTH" /\ srvMode = "cmd" /\ srvPart.n = 0
                  THEN {[ok |-> TRUE, line |-> BareLine(h.cmd),
                         in |-> Tail(q), mode |-> "auth", part |-> NoPart]}
                  ELSE {})
       ELSE {})

readResponse == readLine(reader)

(* effect of a read through handle h with outcome r *)
ReadVia(h, r) ==
    /\ srvIn' = r.in
    /\ srvMode' = r.mode
    /\ srvPart' = r.part
    /\ broken' = IF r.ok THEN broken ELSE Fail(h)
    /\ nreads' = nreads + 1
    /\ lastLine' = r.line
    /\ rejected' = (rejected \/ (r.ok /\ r.line.cmd \in {"MAIL", "RCPT"}
                                       /\ r.line.code # 2))
    /\ dataReply' = IF r.ok /\ r.line.cmd = "DATA" THEN r.line.code
                    ELSE dataReply
    /\ rcptAccepted' = (rcptAccepted \/ (r.ok /\ r.line.cmd = "RCPT"
                                          /\ r.line.code = 2))
    /\ lastIO' = h

Read(r) == ReadVia(reader, r)

(* lines 301-317: SendCommand writes cmd and flushes the writer; w is     *)
(* whether the transport takes the line                                    *)
SendCommand(l, w) ==
    /\ sent' = Append(sent, l)
    /\ lastIO' = writer
    /\ IF w THEN srvIn' = Append(srvIn, l) /\ broken' = broken
            ELSE srvIn' = srvIn /\ broken' = Fail(writer)

(* outcomes of a write: it may always fail, it works on a usable socket *)
WriteOutcomes == IF Usable(writer) THEN {TRUE, FALSE} ELSE {FALSE}

----------------------------------------------------------------------------
(* Connect                                                                 *)

connectAlwaysDials(c) == FALSE
(* line 97: the attempt reuses the transport the client already holds *)
connectReuses(c) == c # NilConn

Connect ==
    /\ pc = "idle"
    /\ MainAllows("connect")
    /\ BeginRetry("connect")
    /\ UNCHANGED <<clientVars, envVars, sendVars, attemptHist>>

(* lines 97-110: c.conn is set: wrap it again and read the greeting *)
ConnectReuse ==
    /\ pc = "conn_check"
    /\ connectReuses(conn)
    /\ reader' = conn
    /\ writer' = conn
    /\ \E r \in readLine(conn) :
          /\ ReadVia(conn, r)
          /\ err' = IF r.ok THEN NoErr
                    ELSE Err("failed to read server greeting")
    /\ pc' = "fn_ret"
    /\ UNCHANGED <<conn, retry, timeout, hostname, debug, capabilities, tls,
                   netOpen, dials,
                   sendVars, op, attempt, lastErr, ret, calls, fails, sleeps,
                   sent, dialed>>

(* lines 112-126: dial; on success install the new transport *)
ConnectDial ==
    /\ pc = "conn_check"
    /\ ~connectReuses(conn)
    /\ dialed' = TRUE
    /\ \/ /\ err' = Err("failed to connect to SMTP server")
          /\ pc' = "fn_ret"
          /\ UNCHANGED <<conn, reader, writer, envVars>>
       \/ /\ dials' = dials + 1
          /\ netOpen' = netOpen \cup {dials + 1}
          /\ conn' = PlainConn(dials + 1)
          /\ reader' = PlainConn(dials + 1)
          /\ writer' = PlainConn(dials + 1)
          /\ srvIn' = <<Line("GREET", "")>>
          /\ srvMode' = "cmd"
          /\ srvPart' = NoPart
          /\ err' = err
          /\ pc' = "conn_greet"
          /\ UNCHANGED broken
    /\ UNCHANGED <<retry, timeout, hostname, debug, capabilities, tls,
                   sendVars, op, attempt,
                   lastErr, ret, calls, fails, sleeps, sent, nreads, lastLine,
                   rejected, dataReply, rcptAccepted, lastIO>>

(* lines 128-135: read the greeting; on a read error close the transport *)
ConnectGreeting ==
    /\ pc = "conn_greet"
    /\ \E r \in readResponse :
          /\ Read(r)
          /\ IF r.ok
               THEN err' = NoErr /\ netOpen' = netOpen
               ELSE /\ err' = Err("failed to read server greeting")
                    /\ netOpen' = netOpen \ {conn.sock}
    /\ pc' = "fn_ret"
    /\ UNCHANGED <<clientVars, dials, sendVars, op, attempt, lastErr, ret,
                   calls, fails, sleeps, sent, dialed>>

----------------------------------------------------------------------------
(* Message (internal/message)                                              *)

Addr == {"a", "b"}

RECURSIVE SeqsUpTo(_, _)
SeqsUpTo(S, n) ==
    IF n = 0 THEN {<<>>}
    ELSE LET shorter == SeqsUpTo(S, n - 1)
         IN shorter \cup {Append(q, x) : q \in shorter, x \in S}

validateRecipientsFirst(m) ==
    IF Len(m.To) = 0 THEN Err("at least one recipient is required")
    ELSE IF m.From = "" THEN Err("from address is required")
    ELSE IF m.Subject = "" THEN Err("subject is required")
    ELSE IF m.Body = "" /\ m.HTMLBody = "" /\ m.Attachments = 0
      THEN Err("body is required")
    ELSE IF ~m.DateSet THEN Err("date is required")
    ELSE NoErr
(* Message.Validate: the first failing check, or nil *)
Validate(m) ==
    IF m.From = "" THEN Err("from address is required")
    ELSE IF Len(m.To) = 0 THEN Err("at least one recipient is required")
    ELSE IF m.Subject = "" THEN Err("subject is required")
    ELSE IF m.Body = "" /\ m.HTMLBody = "" /\ m.Attachments = 0
      THEN Err("body is required")
    ELSE IF ~m.DateSet THEN Err("date is required")
    ELSE NoErr

(* Message.Build: fails when Validate fails, else yields the message text *)
Build(m) ==
    [err |-> Validate(m),
     data |-> IF Validate(m) = NoErr THEN Line("PAYLOAD", m.Body)
              ELSE Line("PAYLOAD", "")]

(* the lines of a text, as strings.Split(text, "\r\n") gives them; a     *)
(* text without a line break is one line                                  *)
Lines(text) ==
    CASE text = "a\r\n.\r\nb" -> <<"a", ".", "b">>
      [] text = "a\r\n..b" -> <<"a", "..b">>
      [] OTHER -> <<text>>

(* a line of the built message: a header "name: value", or the text v *)
HeaderLine(name, value) == [h |-> name, v |-> value]
TextLine(t) == [h |-> "", v |-> t]
TextLines(text) == [i \in 1 .. Len(Lines(text)) |-> TextLine(Lines(text)[i])]
DotLine == TextLine(".")

(* lines 137-196 of Message.Build: the text it returns when Validate has  *)
(* passed, line by line; the bodies are written as they are               *)
BuildText(m) ==
    LET boundary == [h |-> "--", v |-> "boundary"]
        part(ctype, text) ==
            IF text = "" THEN <<>>
            ELSE <<boundary, HeaderLine("Content-Type", ctype), TextLine("")>>
                 \o TextLines(text)
        attachment ==
            <<boundary,
              HeaderLine("Content-Type", "application/octet-stream"),
              HeaderLine("Content-Transfer-Encoding", "base64"),
              HeaderLine("Content-Disposition", "attachment"),
              TextLine(""), TextLine("base64 text")>>
    IN <<HeaderLine("From", m.From), HeaderLine("To", "To list")>>
       \o (IF Len(m.Cc) > 0 THEN <<HeaderLine("Cc", "Cc list")>> ELSE <<>>)
       \o <<HeaderLine("Subject", m.Subject), HeaderLine("Date", "now")>>
       \o (IF m.Attachments > 0 \/ m.HTMLBody # ""
              THEN <<HeaderLine("Content-Type", "multipart/mixed"),
                     TextLine("")>>
                   \o part("text/plain", m.Body)
                   \o part("text/html", m.HTMLBody)
                   \o (IF m.Attachments > 0 THEN attachment ELSE <<>>)
                   \o <<[h |-> "--", v |-> "boundary--"]>>
              ELSE <<HeaderLine("Content-Type", "text/plain"), TextLine("")>>
                   \o TextLines(m.Body))

(* a call of msg.Validate() / msg.Build() by a user of the package *)
ValidateCall ==
    /\ pc = "idle"
    /\ op = "none"
    /\ op' = "validate"
    /\ ret' = Validate(msg)
    /\ UNCHANGED <<clientVars, envVars, sendVars, attemptHist, pc, attempt,
                   lastErr, err, calls, fails, sleeps>>

BuildCall ==
    /\ pc = "idle"
    /\ op = "none"
    /\ op' = "build"
    /\ ret' = Build(msg).err
    /\ UNCHANGED <<clientVars, envVars, sendVars, attemptHist, pc, attempt,
                   lastErr, err, calls, fails, sleeps>>

----------------------------------------------------------------------------
(* SendMessage, SendMessagePipelined, sendMessageNonPipelined              *)

(* lines 433-436 / 504-507: allRecipients *)
allRecipients(m) == m.To \o m.Cc \o m.Bcc

(* lines 439-446 / 510-517: the loop that removes duplicates *)
RECURSIVE removeDuplicates(_, _, _)
removeDuplicates(all, seen, out) ==
    IF all = <<>> THEN out
    ELSE IF Head(all) \in seen
      THEN removeDuplicates(Tail(all), seen, out)
      ELSE removeDuplicates(Tail(all), seen \cup {Head(all)},
                            Append(out, Head(all)))

keepsDuplicates(m) == allRecipients(m)
uniqueRecipients(m) == removeDuplicates(allRecipients(m), {}, <<>>)

(* lines 490, 498: the strategy both entry points choose *)
usesPipelining(caps) == caps.Pipelining

(* lines 490-493: what SendMessage calls *)
sendMessageCalls(p) ==
    IF p THEN "SendMessagePipelined" ELSE "sendMessageNonPipelined"

sendMessagePipelinedAlwaysDelegates(p) == "SendMessage"
(* lines 498-502: what SendMessagePipelined calls: SendMessage, or its   *)
(* own withRetry body                                                     *)
sendMessagePipelinedCalls(p) ==
    IF ~p THEN "SendMessage" ELSE "pipelined body"

TransactionBodies == {"sendMessageNonPipelined", "pipelined body"}

(* the functions a call of entry passes through, followed up to fuel     *)
(* calls deep                                                             *)
RECURSIVE delegation(_, _, _)
delegation(entry, p, fuel) ==
    IF fuel = 0 \/ entry \in TransactionBodies THEN <<entry>>
    ELSE IF entry = "SendMessage"
      THEN <<entry>> \o delegation(sendMessageCalls(p), p, fuel - 1)
    ELSE <<entry>> \o delegation(sendMessagePipelinedCalls(p), p, fuel - 1)

(* a call of either entry point runs the body its delegation ends in;    *)
(* main sends one message per run (line 282)                              *)
StartSend(entry) ==
    LET path == delegation(entry, usesPipelining(capabilities),
                           MaxDelegations)
        body == path[Len(path)]
    IN /\ pc = "idle"
       /\ MainAllows("send message")
       /\ ~sendCalled
       /\ sendCalled' = TRUE
       /\ body \in TransactionBodies
       /\ IF body = "pipelined body"
            THEN BeginRetry("send pipelined message")
            ELSE BeginRetry("send message")
       /\ UNCHANGED <<clientVars, envVars, msg, authArgs, runVars, uniq, idx,
                      attemptHist>>

(* lines 489-494 *)
SendMessage == StartSend("SendMessage")

(* lines 497-502 *)
SendMessagePipelined == StartSend("SendMessagePipelined")

(* return e from the running function: to withRetry when the function  *)
(* is its fn, else to the caller of the operation                        *)
Exit(e) ==
    IF op \in RetryOps
      THEN pc' = "fn_ret" /\ err' = e /\ ret' = ret
      ELSE pc' = "idle" /\ ret' = e /\ err' = err

Goto(next) ==
    IF next = "return" THEN Exit(NoErr)
    ELSE pc' = next /\ err' = err /\ ret' = ret

(* a SendCommand call: on failure the function returns the error e *)
WriteStep(l, next, e) ==
    /\ \E w \in WriteOutcomes :
          /\ SendCommand(l, w)
          /\ IF w THEN Goto(next) ELSE Exit(Err(e))
    /\ UNCHANGED <<clientVars, netOpen, dials, srvMode, srvPart, argVars, op,
                   attempt, lastErr, calls, fails, sleeps, nreads,
                   lastLine, rejected, dataReply, dialed, rcptAccepted>>

(* a readResponse call whose line is dropped: only a read error makes   *)
(* the function return an error                                          *)
ReadStep(next, e) ==
    /\ \E r \in readResponse :
          /\ Read(r)
          /\ IF r.ok THEN Goto(next) ELSE Exit(Err(e))
    /\ UNCHANGED <<clientVars, netOpen, dials, argVars, op, attempt,
                   lastErr, calls, fails, sleeps, sent, dialed>>

(* where the recipient loop goes when it stands at index i *)
LoopOr(i, n, body, after) == IF i <= n THEN body ELSE after

(* --- sendMessageNonPipelined, lines 426-485 --- *)

(* lines 401-406, 428: MailFrom writes MAIL FROM *)
MailFromSend ==
    /\ pc = "seq_mail"
    /\ WriteStep(Line("MAIL", msg.From), "seq_mail_rd", "failed to set sender")
    /\ UNCHANGED <<uniq, idx>>

(* lines 408-409, 428-446: MailFrom reads one line; then the recipients   *)
(* are collected and deduplicated                                          *)
MailFromReply ==
    /\ pc = "seq_mail_rd"
    /\ uniq' = uniqueRecipients(msg)
    /\ idx' = 1
    /\ ReadStep(LoopOr(1, Len(uniqueRecipients(msg)), "seq_rcpt", "seq_data"),
                "failed to set sender")

(* lines 413-418, 449-450: RcptTo writes RCPT TO for the next recipient *)
RcptToSend ==
    /\ pc = "seq_rcpt"
    /\ WriteStep(Line("RCPT", uniq[idx]), "seq_rcpt_rd",
                 "failed to set recipient")
    /\ UNCHANGED <<uniq, idx>>

(* lines 420-421, 449-453: RcptTo reads one line; the loop goes on *)
RcptToReply ==
    /\ pc = "seq_rcpt_rd"
    /\ idx' = idx + 1
    /\ uniq' = uniq
    /\ ReadStep(LoopOr(idx + 1, Len(uniq), "seq_rcpt", "seq_data"),
                "failed to set recipient")

(* lines 456-458 *)
SeqData ==
    /\ pc = "seq_data"
    /\ WriteStep(Line("DATA", ""), "seq_data_rd",
                 "failed to send DATA command")
    /\ UNCHANGED <<uniq, idx>>

(* lines 461-464 *)
SeqDataReply ==
    /\ pc = "seq_data_rd"
    /\ ReadStep("seq_build", "server rejected DATA command")
    /\ UNCHANGED <<uniq, idx>>

(* lines 467-475: build the message and write it *)
SeqPayload ==
    /\ pc = "seq_build"
    /\ IF Build(msg).err # NoErr
         THEN /\ Exit(Err("failed to build message"))
              /\ UNCHANGED <<clientVars, envVars, argVars, op, attempt,
                             lastErr, calls, fails, sleeps, attemptHist>>
         ELSE WriteStep(Build(msg).data, "seq_dot", "failed to send message")
    /\ UNCHANGED <<uniq, idx>>

(* lines 478-480 *)
SeqTerminator ==
    /\ pc = "seq_dot"
    /\ WriteStep(Line(".", ""), "seq_final_rd",
                 "failed to send end of message marker")
    /\ UNCHANGED <<uniq, idx>>

(* lines 483-484 *)
SeqFinalReply ==
    /\ pc = "seq_final_rd"
    /\ ReadStep("return", "failed to read response")
    /\ UNCHANGED <<uniq, idx>>

(* --- SendMessagePipelined, lines 502-575 --- *)

PipMailFromThenRead ==
    /\ pc = "pip_mail"
    /\ uniq' = uniqueRecipients(msg)
    /\ idx' = 1
    /\ WriteStep(Line("MAIL", msg.From), "pip_mail_rd",
                 "failed to send MAIL FROM")

(* lines 503-522: collect and deduplicate, write MAIL FROM *)
PipMailFrom ==
    /\ pc = "pip_mail"
    /\ uniq' = uniqueRecipients(msg)
    /\ idx' = 1
    /\ WriteStep(Line("MAIL", msg.From),
                 LoopOr(1, Len(uniqueRecipients(msg)), "pip_rcpt", "pip_data"),
                 "failed to send MAIL FROM")

(* lines 524-528: write RCPT TO for the next recipient *)
PipRcptTo ==
    /\ pc = "pip_rcpt"
    /\ idx' = idx + 1
    /\ uniq' = uniq
    /\ WriteStep(Line("RCPT", uniq[idx]),
                 LoopOr(idx + 1, Len(uniq), "pip_rcpt", "pip_data"),
                 "failed to send RCPT TO")

(* lines 530-537: write DATA; the extra Flush finds the buffer empty *)
PipData ==
    /\ pc = "pip_data"
    /\ WriteStep(Line("DATA", ""), "pip_mail_rd", "failed to send DATA")
    /\ UNCHANGED <<uniq, idx>>

(* lines 540-543 *)
PipMailReply ==
    /\ pc = "pip_mail_rd"
    /\ idx' = 1
    /\ uniq' = uniq
    /\ ReadStep(LoopOr(1, Len(uniq), "pip_rcpt_rd", "pip_data_rd"),
                "MAIL FROM failed")

(* lines 545-550 *)
PipRcptReply ==
    /\ pc = "pip_rcpt_rd"
    /\ idx' = idx + 1
    /\ uniq' = uniq
    /\ ReadStep(LoopOr(idx + 1, Len(uniq), "pip_rcpt_rd", "pip_data_rd"),
                "RCPT TO failed")

(* lines 553-556 *)
PipDataReply ==
    /\ pc = "pip_data_rd"
    /\ ReadStep("pip_build", "DATA command failed")
    /\ UNCHANGED <<uniq, idx>>

(* lines 559-566 *)
PipPayload ==
    /\ pc = "pip_build"
    /\ IF Build(msg).err # NoErr
         THEN /\ Exit(Err("failed to build message"))
              /\ UNCHANGED <<clientVars, envVars, argVars, op, attempt,
                             lastErr, calls, fails, sleeps, attemptHist>>
         ELSE WriteStep(Build(msg).data, "pip_dot", "failed to send message")
    /\ UNCHANGED <<uniq, idx>>

(* lines 568-570 *)
PipTerminator ==
    /\ pc = "pip_dot"
    /\ WriteStep(Line(".", ""), "pip_final_rd",
                 "failed to send end of message")
    /\ UNCHANGED <<uniq, idx>>

(* lines 573-574 *)
PipFinalReply ==
    /\ pc = "pip_final_rd"
    /\ ReadStep("return", "failed to read response")
    /\ UNCHANGED <<uniq, idx>>

----------------------------------------------------------------------------
(* Authenticate (internal/auth and SMTPClient.Authenticate)                *)

(* strings.ToLower / strings.EqualFold on the names that occur *)
ToLower(s) ==
    CASE s = "PLAIN" -> "plain"
      [] s = "LOGIN" -> "login"
      [] s = "CRAM-MD5" -> "cram-md5"
      [] OTHER -> s
EqualFold(s, t) == ToLower(s) = ToLower(t)

NewAuthenticatorAnyCase(authType) ==
    CASE ToLower(authType) = "plain" -> [ok |-> TRUE, Type |-> "PLAIN"]
      [] ToLower(authType) = "login" -> [ok |-> TRUE, Type |-> "LOGIN"]
      [] ToLower(authType) = "cram-md5" -> [ok |-> TRUE, Type |-> "CRAM-MD5"]
      [] OTHER -> [ok |-> FALSE, Type |-> ""]
(* auth.go lines 31-42: the switch is on the exact lower-case names *)
NewAuthenticator(authType) ==
    CASE authType = "plain" -> [ok |-> TRUE, Type |-> "PLAIN"]
      [] authType = "login" -> [ok |-> TRUE, Type |-> "LOGIN"]
      [] authType = "cram-md5" -> [ok |-> TRUE, Type |-> "CRAM-MD5"]
      [] OTHER -> [ok |-> FALSE, Type |-> ""]

(* Base64Decode applied to a whole reply line: the decoder skips CR and   *)
(* LF, and fails on the space or '-' that follows a reply code, so only   *)
(* a line that is bare base64 text decodes                                *)
Base64DecodeOk(line) == line.code = 0

(* lines 231-289: the switch on authType after the AUTH command *)
AuthBranch(authType) ==
    CASE authType = "plain" -> "auth_plain"
      [] authType = "login" -> "auth_user"
      [] authType = "cram-md5" -> "auth_chal"
      [] OTHER -> "auth_default"

AuthTypes == {"plain", "login", "cram-md5", "PLAIN", "ntlm"}

(* lines 216-221: create the authenticator; main authenticates once *)
Authenticate ==
    /\ pc = "idle"
    /\ MainAllows("authenticate")
    /\ authArgs = NoAuth
    /\ \E t \in AuthTypes, u \in {"", "user"}, p \in {"", "secret"} :
          /\ mainPc # "lib" =>
                (/\ t = opts.auth_type
                 /\ u = opts.username /\ u # ""
                 /\ p = opts.password /\ p # "")
          /\ authArgs' = [type |-> t, username |-> u, password |-> p]
          /\ IF NewAuthenticator(t).ok
               THEN pc' = "auth_cmd" /\ ret' = Pending
               ELSE pc' = "idle" /\ ret' = Err("failed to create authenticator")
    /\ op' = "authenticate"
    /\ ResetAttemptHist
    /\ UNCHANGED <<clientVars, envVars, msg, sendCalled, runVars, uniq, idx,
                   attempt, lastErr, err, calls, fails, sleeps>>

(* lines 224-228, 231: send AUTH <TYPE>, then branch on authType *)
AuthCommand ==
    /\ pc = "auth_cmd"
    /\ WriteStep(Line("AUTH", NewAuthenticator(authArgs.type).Type),
                 AuthBranch(authArgs.type), "failed to send AUTH command")
    /\ UNCHANGED <<uniq, idx>>

(* lines 233-240: PLAIN sends base64(\0 username \0 password) at once *)
AuthPlainResponse ==
    /\ pc = "auth_plain"
    /\ WriteStep(Line("CRED", "plain"), "auth_plain_rd",
                 "failed to send PLAIN auth response")
    /\ UNCHANGED <<uniq, idx>>

(* lines 241-242 *)
AuthPlainReply ==
    /\ pc = "auth_plain_rd"
    /\ ReadStep("return", "failed to read response")
    /\ UNCHANGED <<uniq, idx>>

(* lines 246-253: LOGIN sends base64(username) *)
AuthLoginUsername ==
    /\ pc = "auth_user"
    /\ WriteStep(Line("CRED", "username"), "auth_user_rd",
                 "failed to send LOGIN username")
    /\ UNCHANGED <<uniq, idx>>

(* lines 254-257 *)
AuthLoginUsernameReply ==
    /\ pc = "auth_user_rd"
    /\ ReadStep("auth_pass", "failed to read response")
    /\ UNCHANGED <<uniq, idx>>

(* lines 260-264: LOGIN sends base64(password) *)
AuthLoginPassword ==
    /\ pc = "auth_pass"
    /\ WriteStep(Line("CRED", "password"), "auth_pass_rd",
                 "failed to send LOGIN password")
    /\ UNCHANGED <<uniq, idx>>

(* lines 265-266 *)
AuthLoginPasswordReply ==
    /\ pc = "auth_pass_rd"
    /\ ReadStep("return", "failed to read response")
    /\ UNCHANGED <<uniq, idx>>

(* lines 270-279: CRAM-MD5 reads one line and decodes the whole of it *)
AuthCramChallenge ==
    /\ pc = "auth_chal"
    /\ \E r \in readResponse :
          /\ Read(r)
          /\ IF ~r.ok THEN Exit(Err("failed to read CRAM-MD5 challenge"))
             ELSE IF ~Base64DecodeOk(r.line)
               THEN Exit(Err("failed to generate CRAM-MD5 response"))
             ELSE Goto("auth_cram")
    /\ UNCHANGED <<clientVars, netOpen, dials, argVars, uniq, idx, op,
                   attempt, lastErr, calls, fails, sleeps, sent, dialed>>

(* lines 280-283 *)
AuthCramResponse ==
    /\ pc = "auth_cram"
    /\ WriteStep(Line("CRED", "cram"), "auth_cram_rd",
                 "failed to send CRAM-MD5 response")
    /\ UNCHANGED <<uniq, idx>>

(* lines 284-285 *)
AuthCramReply ==
    /\ pc = "auth_cram_rd"
    /\ ReadStep("return", "failed to read response")
    /\ UNCHANGED <<uniq, idx>>

----------------------------------------------------------------------------
(* Operations that do not run under withRetry: Ehlo, StartTLS, Quit, Close *)

(* the caller lets the operation start: main stands at this step and has  *)
(* taken the result of the step before; a library user has taken the      *)
(* result of the call before and makes at most MaxCalls calls             *)
CallerAllows(operation) ==
    /\ ret = Pending
    /\ IF mainPc = "lib" THEN Len(steps) < MaxCalls ELSE mainPc = operation

Call(operation, first) ==
    /\ pc = "idle"
    /\ CallerAllows(operation)
    /\ op' = operation
    /\ pc' = first
    /\ ret' = Pending
    /\ ResetAttemptHist
    /\ UNCHANGED <<clientVars, envVars, sendVars, attempt, lastErr, err,
                   calls, fails, sleeps>>

(* --- Ehlo and parseCapabilities, lines 346-398 --- *)

(* the text of a reply line after its code: the capability keyword the   *)
(* text starts with (kw, "" for none), what follows the keyword in the   *)
(* first field (tail), and the further fields (args)                     *)
CapText(k, t, a) == [kw |-> k, tail |-> t, args |-> a]
OtherText == CapText("", "OK", <<>>)

(* the lines a server may put in an EHLO reply *)
CapLines ==
    {CapText("", "mail.example.com", <<"Hello">>),
     CapText("PIPELINING", "", <<>>),
     CapText("STARTTLS", "", <<>>),
     CapText("8BITMIME", "", <<>>),
     CapText("AUTH", "", <<"PLAIN", "LOGIN">>),
     CapText("AUTH", "=LOGIN", <<"PLAIN">>),
     CapText("SIZE", "", <<"100">>)}

(* the 2xx replies to these commands carry code 250 *)
Code250(line) == line.code = 2 /\ line.cmd \in {"EHLO", "MAIL", "RCPT", "."}

TextOf(line) == IF line.cmd = "EHLO" /\ line.code = 2 THEN CapLines
                ELSE {OtherText}

(* strconv.Atoi with the error dropped (line 361): 0 for a non-number *)
Atoi(f) == CASE f = "100" -> 100 [] f = "200" -> 200 [] OTHER -> 0

(* line 153 / 387: len(line) >= 4 && line[3] == ' ' *)
isFinalLine(line) == line.final

(* lines 350-365: one line of the response; HasPrefix tests the start of  *)
(* the text, strings.Fields(capability)[1:] are the further fields        *)
parseLine(caps, l) ==
    IF ~l.is250 THEN caps
    ELSE CASE l.text.kw = "PIPELINING" -> [caps EXCEPT !.Pipelining = TRUE]
           [] l.text.kw = "STARTTLS" -> [caps EXCEPT !.StartTLS = TRUE]
           [] l.text.kw = "AUTH" -> [caps EXCEPT !.Auth = l.text.args]
           [] l.text.kw = "SIZE" ->
                IF Len(l.text.args) >= 1
                  THEN [caps EXCEPT !.Size = Atoi(l.text.args[1])]
                  ELSE caps
           [] l.text.kw = "8BITMIME" -> [caps EXCEPT !.EightBit = TRUE]
           [] OTHER -> caps

RECURSIVE parseLines(_, _)
parseLines(caps, lines) ==
    IF lines = <<>> THEN caps
    ELSE parseLines(parseLine(caps, Head(lines)), Tail(lines))

keepsCapabilities(old) == old
(* line 347: c.capabilities = ServerCapabilities{} *)
resetCapabilities(old) == NoCapabilities

(* lines 346-368 *)
parseCapabilities(old, resp) == parseLines(resetCapabilities(old), resp)

(* lines 371-372 *)
Ehlo ==
    /\ pc = "idle"
    /\ Call("ehlo", "ehlo_cmd")

(* lines 373-376 *)
EhloCommand ==
    /\ pc = "ehlo_cmd"
    /\ WriteStep(Line("EHLO", hostname), "ehlo_rd",
                 "failed to write command")
    /\ UNCHANGED <<uniq, idx>>

resetsOnReject(caps) == NoCapabilities
(* lines 388-390: a rejected EHLO returns before parseCapabilities *)
keepsOnReject(caps) == caps

(* lines 380-393: read one line, collect it, stop at a final line *)
EhloReply ==
    /\ pc = "ehlo_rd"
    /\ \E r \in readResponse :
          /\ Read(r)
          /\ IF ~r.ok
               THEN /\ Exit(Err("failed to read response"))
                    /\ response' = <<>>
                    /\ capabilities' = capabilities
             ELSE \E t \in TextOf(r.line) :
               LET got == Append(response,
                                 [is250 |-> Code250(r.line), text |-> t])
               IN IF ~isFinalLine(r.line)
                    THEN /\ Goto("ehlo_rd")
                         /\ response' = got
                         /\ capabilities' = capabilities
                  ELSE IF r.line.code # 2
                    THEN /\ Exit(Err("server rejected EHLO"))
                         /\ response' = <<>>
                         /\ capabilities' = keepsOnReject(capabilities)
                  ELSE /\ Goto("ehlo_parse")
                       /\ response' = got
                       /\ capabilities' = capabilities
    /\ UNCHANGED <<conn, reader, writer, retry, timeout, hostname, debug,
                   tls, netOpen, dials,
                   msg, sendCalled, authArgs,
                   callerVars, tlsSocks, handshakes, closes, uniq, idx, op, attempt, lastErr, calls, fails, sleeps, sent,
                   dialed>>

(* lines 396-397: parse what was collected and return nil *)
EhloParse ==
    /\ pc = "ehlo_parse"
    /\ capabilities' = parseCapabilities(capabilities, response)
    /\ response' = <<>>
    /\ Exit(NoErr)
    /\ UNCHANGED <<conn, reader, writer, retry, timeout, hostname, debug,
                   tls, envVars, msg,
                   sendCalled, authArgs, callerVars, tlsSocks, handshakes,
                   closes, uniq, idx, op, attempt, lastErr, calls, fails,
                   sleeps, attemptHist>>

(* --- StartTLS, lines 140-197 --- *)

(* lines 140-141; a caller upgrades a transport once *)
StartTLS ==
    /\ ~tls
    /\ Call("starttls", "tls_cmd")

(* lines 141-144 *)
StartTLSCommand ==
    /\ pc = "tls_cmd"
    /\ WriteStep(Line("STARTTLS", ""), "tls_rd",
                 "failed to send STARTTLS command")
    /\ UNCHANGED <<uniq, idx>>

acceptsAnyReply(line) == TRUE
(* line 154: line[0] != '2' rejects *)
startTLSAccepted(line) == line.code = 2

(* lines 147-159: read lines up to a final one; its first digit decides *)
StartTLSReply ==
    /\ pc = "tls_rd"
    /\ \E r \in readResponse :
          /\ Read(r)
          /\ IF ~r.ok THEN Exit(Err("server rejected STARTTLS"))
             ELSE IF ~isFinalLine(r.line) THEN Goto("tls_rd")
             ELSE IF ~startTLSAccepted(r.line)
               THEN Exit(Err("server rejected STARTTLS"))
             ELSE Goto("tls_handshake")
    /\ UNCHANGED <<clientVars, netOpen, dials, argVars, uniq, idx, op,
                   attempt, lastErr, calls, fails, sleeps, sent, dialed>>

(* line 164: the InsecureSkipVerify field of the tls.Config StartTLS    *)
(* builds, given the caller's skip_verify option                          *)
insecureSkipVerify(o) == TRUE

(* the peer completes a handshake when it has agreed to STARTTLS, has    *)
(* nothing else to say in plaintext, and the client accepts its          *)
(* certificate                                                            *)
HandshakeCanSucceed ==
    /\ Usable(conn)
    /\ srvIn = <<>>
    /\ lastLine.cmd = "STARTTLS"
    /\ lastLine.code = 2
    /\ insecureSkipVerify(opts) \/ certValid

keepsPlainReader(old, new) == old
(* line 192: c.reader = bufio.NewReader(tlsConn) *)
upgradedReader(old, new) == new

(* lines 161-197: handshake over c.conn; on success install the TLS      *)
(* transport, on failure leave the client as it was                       *)
StartTLSHandshake ==
    /\ pc = "tls_handshake"
    /\ handshakes' = handshakes + 1
    /\ \/ /\ HandshakeCanSucceed
          /\ conn' = TLSConn(conn.sock)
          /\ reader' = upgradedReader(reader, TLSConn(conn.sock))
          /\ writer' = TLSConn(conn.sock)
          /\ tls' = TRUE
          /\ tlsSocks' = tlsSocks \cup {conn.sock}
          /\ lastIO' = TLSConn(conn.sock)
          /\ broken' = broken
          /\ Exit(NoErr)
       \/ /\ broken' = Fail(conn)
          /\ lastIO' = conn
          /\ Exit(Err("TLS handshake failed"))
          /\ UNCHANGED <<conn, reader, writer, tls, tlsSocks>>
    /\ UNCHANGED <<retry, timeout, hostname, debug, capabilities, netOpen,
                   dials, srvIn,
                   srvMode, srvPart, msg, sendCalled, authArgs, response,
                   callerVars, closes, uniq, idx, op, attempt,
                   lastErr, calls, fails, sleeps, sent, nreads, lastLine,
                   rejected, dataReply, dialed, rcptAccepted>>

(* --- Quit, lines 579-587 --- *)

(* lines 579-580 *)
Quit ==
    /\ pc = "idle"
    /\ Call("quit", "quit_cmd")

(* lines 580-583 *)
QuitCommand ==
    /\ pc = "quit_cmd"
    /\ WriteStep(Line("QUIT", ""), "quit_rd", "failed to write command")
    /\ UNCHANGED <<uniq, idx>>

(* lines 585-586 *)
QuitReply ==
    /\ pc = "quit_rd"
    /\ ReadStep("return", "failed to read response")
    /\ UNCHANGED <<uniq, idx>>

(* --- Close, lines 293-298 --- *)

(* what Close of a transport on socket s returns: an open plain socket   *)
(* closes without error; a TLS transport sends its closing alert first,  *)
(* which fails on a failed socket; a closed transport reports an error   *)
closeResults(h) ==
    IF h.sock \notin netOpen THEN {Err("use of closed network connection")}
    ELSE IF h.layer = "tls" /\ h.sock \in broken
      THEN {NoErr, Err("close failed")}
    ELSE {NoErr}

(* lines 293-298: c.conn is closed when it is set, and stays set *)
Close ==
    /\ pc = "idle"
    /\ CallerAllows("close")
    /\ op' = "close"
    /\ ResetAttemptHist
    /\ IF conn # NilConn
         THEN /\ closes' = Append(closes, conn.sock)
              /\ netOpen' = netOpen \ {conn.sock}
              /\ ret' \in closeResults(conn)
         ELSE /\ ret' = NoErr
              /\ UNCHANGED <<closes, netOpen>>
    /\ UNCHANGED <<clientVars, broken, dials, srvIn, srvMode, srvPart, msg,
                   sendCalled, authArgs, response, callerVars, tlsSocks,
                   handshakes, uniq, idx, pc, attempt, lastErr,
                   err, calls, fails, sleeps>>

(* --- a library user of a connected client --- *)

(* what the caller has after a call: the call, whether it returned nil, *)
(* and the strategy SendMessage would choose now                         *)
Step(name) ==
    [op |-> name, ok |-> ret = NoErr,
     pipelining |-> usesPipelining(capabilities)]

(* the caller takes the result of the call that has returned *)
CallerReturn ==
    /\ mainPc = "lib"
    /\ pc = "idle"
    /\ ret # Pending
    /\ steps' = Append(steps, Step(op))
    /\ ret' = Pending
    /\ UNCHANGED <<clientVars, envVars, msg, sendCalled, authArgs, response,
                   mainPc, opts, certValid, setArgs, tlsSocks, handshakes,
                   closes, uniq, idx, pc, op, attempt, lastErr, err, calls,
                   fails, sleeps, attemptHist>>

(* --- main (cmd/smtp-edc), lines 243-292 --- *)

Called(name) == \E i \in 1 .. Len(steps) : steps[i].op = name

mainNextSkipsEhlo(cur) ==
    LET afterTLS == IF opts.auth_type # "" THEN "authenticate"
                    ELSE "send message"
    IN CASE cur = "connect" -> "ehlo"
         [] cur = "ehlo" -> IF opts.starttls THEN "starttls" ELSE afterTLS
         [] cur = "starttls" -> afterTLS
         [] cur = "authenticate" -> "send message"
         [] cur = "send message" -> "quit"
         [] cur = "quit" -> "close"
         [] OTHER -> "done"
(* the step main goes to when step cur has returned nil; after QUIT main *)
(* returns and the deferred Close (line 251) runs                        *)
mainNext(cur) ==
    LET afterTLS == IF opts.auth_type # "" THEN "authenticate"
                    ELSE "send message"
    IN CASE cur = "connect" -> "ehlo"
         [] cur = "ehlo" -> IF opts.starttls /\ ~Called("starttls")
                              THEN "starttls" ELSE afterTLS
         [] cur = "starttls" -> "ehlo"
         [] cur = "authenticate" -> "send message"
         [] cur = "send message" -> "quit"
         [] cur = "quit" -> "close"
         [] OTHER -> "done"

mainGoesOnWithoutTLS(cur, e) ==
    IF cur = "close" THEN "done"
    ELSE IF e # NoErr /\ cur # "starttls" THEN "exited"
    ELSE mainNext(cur)
(* where main stands after step cur has returned e *)
mainAfter(cur, e) ==
    IF cur = "close" THEN "done"
    ELSE IF e # NoErr THEN "exited"
    ELSE mainNext(cur)

(* the 'if err != nil { log.Fatalf(...) }' after each call: log.Fatalf   *)
(* ends the process at once (os.Exit), deferred calls do not run; the    *)
(* value the deferred Close returns is dropped                            *)
MainCheck ==
    /\ mainPc \notin {"lib", "exited", "done"}
    /\ pc = "idle"
    /\ ret # Pending
    /\ steps' = Append(steps, Step(mainPc))
    /\ mainPc' = mainAfter(mainPc, ret)
    /\ ret' = Pending
    /\ UNCHANGED <<clientVars, envVars, msg, sendCalled, authArgs, response,
                   opts, certValid, setArgs, tlsSocks, handshakes, closes,
                   uniq, idx,
                   pc, op, attempt, lastErr, err, calls, fails, sleeps,
                   attemptHist>>

(* lines 271-275: log.Fatal when the username or the password is empty *)
MainCredentialsMissing ==
    /\ mainPc = "authenticate"
    /\ pc = "idle"
    /\ ret = Pending
    /\ authArgs = NoAuth
    /\ opts.username = "" \/ opts.password = ""
    /\ mainPc' = "exited"
    /\ UNCHANGED <<clientVars, envVars, msg, sendCalled, authArgs, response,
                   opts, steps, certValid, setArgs, tlsSocks, handshakes,
                   closes, uniq,
                   idx, pc, op, attempt, lastErr, err, ret, calls, fails,
                   sleeps, attemptHist>>

(* main lines 89-99: parseAddressList of an option that is empty or names *)
(* one address                                                            *)
parseAddressList(list) == IF list = "" THEN <<>> ELSE <<list>>

(* message.go lines 37-47 *)
NewMessage(from, to, subject, body) ==
    [From |-> from, To |-> to, Cc |-> <<>>, Bcc |-> <<>>,
     Subject |-> subject, Body |-> body, HTMLBody |-> "", Attachments |-> 0,
     DateSet |-> TRUE]

(* main line 142: the run goes on only with a server, a sender and a     *)
(* recipient in one of the three lists                                    *)
requiredGiven(o) ==
    ~(o.server = "" \/ o.from = "" \/ (o.to = "" /\ o.cc = "" /\ o.bcc = ""))

(* main lines 205-207: the message of a run without a template *)
mainMessage(o) ==
    [NewMessage(o.from, parseAddressList(o.to), o.subject, o.body)
       EXCEPT !.Cc = parseAddressList(o.cc), !.Bcc = parseAddressList(o.bcc)]

(* main lines 136-245: check the required options (os.Exit(1) when one   *)
(* is missing), make the message, make the client and set its retry      *)
(* policy from the 'retries' and 'timeout' options                        *)
MainSetup ==
    /\ mainPc = "args"
    /\ pc = "idle"
    /\ IF requiredGiven(opts)
         THEN /\ msg' = mainMessage(opts)
              /\ retry' = setRetryConfigValue(opts.retries, opts.timeout)
              /\ setArgs' = <<opts.retries, opts.timeout>>
              /\ mainPc' = "connect"
         ELSE /\ mainPc' = "exited"
              /\ UNCHANGED <<msg, retry, setArgs>>
    /\ UNCHANGED <<conn, reader, writer, timeout, hostname, debug,
                   capabilities, tls, envVars,
                   sendCalled, authArgs, response, opts, steps, certValid,
                   tlsSocks, handshakes, closes, uniq, idx, pc, op, attempt,
                   lastErr, err, ret, calls, fails, sleeps, attemptHist>>

(* a client that has connected and read the greeting *)
Connected ==
    /\ conn = PlainConn(1)
    /\ reader = PlainConn(1)
    /\ writer = PlainConn(1)
    /\ retry = setRetryConfigValue(DefaultMaxAttempts, DefaultDelay)
    /\ timeout = DefaultTimeout
    /\ hostname = "localhost"
    /\ debug = FALSE
    /\ capabilities = NoCapabilities
    /\ tls = FALSE
    /\ netOpen = {1}
    /\ broken = {}
    /\ dials = 1
    /\ srvIn = <<>>
    /\ srvMode = "cmd"
    /\ srvPart = NoPart
    /\ Quiescent
    /\ msg = NoMessage

InitRetry ==
    /\ \E h \in Hostnames, d \in BOOLEAN : NewSMTPClient(h, d)
    /\ NoEnv
    /\ Quiescent
    /\ NoMain
    /\ msg = NoMessage

NextRetry ==
    \/ SetRetryConfig
    \/ SetTimeout
    \/ Send
    \/ RetryLoop
    \/ RetryFnReturn
    \/ SendMailCall

SpecRetry == InitRetry /\ [][NextRetry]_vars

(* an API call has returned a value to its caller *)
Returned(operation) == pc = "idle" /\ op = operation /\ ret # Pending

----------------------------------------------------------------------------
C6_RetryPolicyValid ==
    /\ retry.MaxAttempts >= 1
    /\ retry.Delay >= 0

----------------------------------------------------------------------------
(* Connect on a new client, for every retry policy with maxAttempts >= 1   *)

InitConnect ==
    /\ conn = NilConn
    /\ reader = NilConn
    /\ writer = NilConn
    /\ retry \in {setRetryConfigValue(m, d) :
                    m \in 1 .. MaxRetries, d \in {0, DefaultDelay}}
    /\ timeout = DefaultTimeout
    /\ hostname = "localhost"
    /\ debug = FALSE
    /\ capabilities = NoCapabilities
    /\ tls = FALSE
    /\ NoEnv
    /\ Quiescent
    /\ NoMain
    /\ msg = NoMessage

NextConnect ==
    \/ Connect
    \/ RetryLoop
    \/ RetryFnReturn
    \/ ConnectReuse
    \/ ConnectDial
    \/ ConnectGreeting

SpecConnect == InitConnect /\ [][NextConnect]_vars

(* C3: Connect succeeds when the greeting's code starts with '2' and       *)
(* fails when the greeting has any other code.                             *)
C3_GreetingDecides ==
    (Returned("connect") /\ lastLine.cmd = "GREET")
    => (ret = NoErr <=> lastLine.code = 2)

(* C4: every Connect attempt after the first one dials afresh before it    *)
(* reads a greeting; none reads from the transport of an earlier attempt.  *)
C4_RetryDialsAfresh ==
    (op = "connect" /\ pc = "fn_ret" /\ attempt > 1) => dialed

----------------------------------------------------------------------------
(* SendMessage on a connected client that has said EHLO                    *)

Messages ==
    {[From |-> "f", To |-> t, Cc |-> c, Bcc |-> b, Subject |-> "s",
      Body |-> "text", HTMLBody |-> "", Attachments |-> 0, DateSet |-> TRUE] :
        t \in SeqsUpTo(Addr, MaxTo), c \in SeqsUpTo(Addr, MaxCc),
        b \in SeqsUpTo(Addr, MaxBcc)}

InitSend ==
    /\ conn = PlainConn(1)
    /\ reader = PlainConn(1)
    /\ writer = PlainConn(1)
    /\ retry \in {setRetryConfigValue(m, DefaultDelay) :
                    m \in 1 .. MaxSendAttempts}
    /\ timeout = DefaultTimeout
    /\ hostname = "localhost"
    /\ debug = FALSE
    /\ capabilities \in {[NoCapabilities EXCEPT !.Pipelining = p] :
                           p \in BOOLEAN}
    /\ tls = FALSE
    /\ netOpen = {1}
    /\ broken = {}
    /\ dials = 1
    /\ srvIn = <<>>
    /\ srvMode = "cmd"
    /\ srvPart = NoPart
    /\ Quiescent
    /\ NoMain
    /\ msg \in {m \in Messages : allRecipients(m) # <<>>}

NextSend ==
    \/ SendMessage
    \/ SendMessagePipelined
    \/ RetryLoop
    \/ RetryFnReturn
    \/ MailFromSend
    \/ MailFromReply
    \/ RcptToSend
    \/ RcptToReply
    \/ SeqData
    \/ SeqDataReply
    \/ SeqPayload
    \/ SeqTerminator
    \/ SeqFinalReply
    \/ PipMailFrom
    \/ PipRcptTo
    \/ PipData
    \/ PipMailReply
    \/ PipRcptReply
    \/ PipDataReply
    \/ PipPayload
    \/ PipTerminator
    \/ PipFinalReply

SpecSend == InitSend /\ [][NextSend]_vars

SendOps == {"send message", "send pipelined message"}

(* the commands / arguments of a sequence of written lines *)
Cmds(ls) == [i \in 1 .. Len(ls) |-> ls[i].cmd]
IsRcpt(l) == l.cmd = "RCPT"
RcptArgs(ls) ==
    LET rc == SelectSeq(ls, IsRcpt) IN [i \in 1 .. Len(rc) |-> rc[i].arg]
Written(c) == \E i \in 1 .. Len(sent) : sent[i].cmd = c

(* the elements of q at their first occurrence, in order *)
FirstOccurrences(q) ==
    LET F[k \in 0 .. Len(q)] ==
          IF k = 0 THEN <<>>
          ELSE IF \E j \in 1 .. k - 1 : q[j] = q[k] THEN F[k - 1]
          ELSE Append(F[k - 1], q[k])
    IN F[Len(q)]

IsPrefix(p, q) == Len(p) <= Len(q) /\ p = SubSeq(q, 1, Len(p))

(* C1: SendMessage returns success only when the line read after the      *)
(* terminator is the server's 2xx reply to it; a 4xx/5xx reply to the      *)
(* terminator makes SendMessage return an error.                           *)
C1_FinalReplyDecides ==
    (pc = "idle" /\ op \in SendOps /\ ret # Pending)
    => /\ ret = NoErr => (lastLine.cmd = "." /\ lastLine.code = 2)
       /\ (lastLine.cmd = "." /\ lastLine.code \in {4, 5}) => ret # NoErr

(* C7: in the sequential strategy nothing is written in an attempt after   *)
(* the server has answered MAIL FROM or a RCPT TO with a non-2xx code.     *)
C7_SequentialAbort ==
    [][(op = "send message" /\ rejected /\ rejected') => sent' = sent]_vars

(* C8: the payload and the terminator are written only after the server    *)
(* has answered DATA with a 2xx/3xx line.                                  *)
C8_PayloadAfterDataAccepted ==
    (op \in SendOps /\ (Written("PAYLOAD") \/ Written(".")))
    => dataReply \in {2, 3}

(* C9: the RCPT TO commands of an attempt are, in order, the addresses of  *)
(* To ++ Cc ++ Bcc at their first occurrence: always a prefix of that      *)
(* list, and the whole list once the attempt has gone on to DATA.          *)
C9_RcptSequence ==
    op \in SendOps
    => LET want == FirstOccurrences(msg.To \o msg.Cc \o msg.Bcc)
       IN /\ IsPrefix(RcptArgs(sent), want)
          /\ Written("DATA") => RcptArgs(sent) = want

C9_Witness ==
    /\ op \in SendOps
    /\ msg.To = <<"a">>
    /\ msg.Cc = <<"a">>
    /\ msg.Bcc = <<"b">>
    /\ Written("DATA")
    /\ RcptArgs(sent) = <<"a", "b">>

(* the number N of distinct addresses in To, Cc and Bcc *)
DistinctRcpts ==
    LET all == msg.To \o msg.Cc \o msg.Bcc
    IN Cardinality({all[i] : i \in 1 .. Len(all)})

(* C10: in a pipelined attempt with N distinct recipients the first reply  *)
(* is read when exactly MAIL FROM, N RCPT TO and DATA have been written,   *)
(* in that order, and the payload is written when exactly N+2 reads have   *)
(* been made.                                                              *)
C10_PipelinedBatch ==
    [][/\ (op = "send pipelined message" /\ nreads = 0 /\ nreads' = 1)
          => Cmds(sent) = <<"MAIL">> \o [i \in 1 .. DistinctRcpts |-> "RCPT"]
                            \o <<"DATA">>
       /\ (op = "send pipelined message" /\ sent' # sent /\ sent' # <<>>
             /\ sent'[Len(sent')].cmd = "PAYLOAD")
          => nreads = DistinctRcpts + 2]_vars

C10_Witness ==
    /\ op = "send pipelined message"
    /\ Len(uniq) = 2
    /\ Cmds(sent) = <<"MAIL", "RCPT", "RCPT", "DATA", "PAYLOAD">>
    /\ nreads = 4

(* C11: in a pipelined attempt the payload is written only when all N     *)
(* RCPT TO replies have been read and at least one RCPT TO was answered    *)
(* 2xx; with every recipient rejected no payload is written.               *)
C11_PayloadNeedsAcceptedRcpt ==
    (op = "send pipelined message" /\ Written("PAYLOAD"))
    => /\ nreads >= DistinctRcpts + 2
       /\ rcptAccepted

(* the number of lines of ls whose command is c *)
Count(ls, c) == Cardinality({i \in 1 .. Len(ls) : ls[i].cmd = c})

(* C12: every attempt of either strategy starts the transaction over: the *)
(* first line it writes is MAIL FROM, and within one attempt MAIL FROM and *)
(* DATA are written at most once and RCPT TO at most once per address.     *)
C12_AttemptRestartsTransaction ==
    (op \in SendOps /\ sent # <<>>)
    => /\ sent[1].cmd = "MAIL"
       /\ Count(sent, "MAIL") = 1
       /\ Count(sent, "DATA") <= 1
       /\ \A i, j \in 1 .. Len(RcptArgs(sent)) :
             RcptArgs(sent)[i] = RcptArgs(sent)[j] => i = j

C12_Witness ==
    /\ op = "send message"
    /\ attempt = 2
    /\ fails = 1
    /\ lastErr = Err("failed to build message")
    /\ Cmds(sent) = <<"MAIL", "RCPT", "DATA">>

----------------------------------------------------------------------------
(* Authenticate on a connected client that has said EHLO                   *)

InitAuth ==
    /\ conn = PlainConn(1)
    /\ reader = PlainConn(1)
    /\ writer = PlainConn(1)
    /\ retry = setRetryConfigValue(DefaultMaxAttempts, DefaultDelay)
    /\ timeout = DefaultTimeout
    /\ hostname = "localhost"
    /\ debug = FALSE
    /\ capabilities = NoCapabilities
    /\ tls = FALSE
    /\ netOpen = {1}
    /\ broken = {}
    /\ dials = 1
    /\ srvIn = <<>>
    /\ srvMode = "cmd"
    /\ srvPart = NoPart
    /\ Quiescent
    /\ NoMain
    /\ msg = NoMessage

NextAuth ==
    \/ Authenticate
    \/ AuthCommand
    \/ AuthPlainResponse
    \/ AuthPlainReply
    \/ AuthLoginUsername
    \/ AuthLoginUsernameReply
    \/ AuthLoginPassword
    \/ AuthLoginPasswordReply
    \/ AuthCramChallenge
    \/ AuthCramResponse
    \/ AuthCramReply

SpecAuth == InitAuth /\ [][NextAuth]_vars

(* C2: Authenticate returns success only when the last line it read is a   *)
(* final 2xx reply of the server.                                          *)
C2_AuthFinalReplyDecides ==
    (Returned("authenticate") /\ ret = NoErr)
    => (lastLine.code = 2 /\ lastLine.final)

----------------------------------------------------------------------------
(* StartTLS, Quit and Close on a connected client, for both values of     *)
(* the skip_verify option and both kinds of server certificate            *)
InitTLS ==
    /\ Connected
    /\ mainPc = "lib"
    /\ opts \in {[NoOpts EXCEPT !.starttls = TRUE, !.skip_verify = k] :
                   k \in BOOLEAN}
    /\ certValid \in BOOLEAN

NextTLS ==
    \/ StartTLS
    \/ StartTLSCommand
    \/ StartTLSReply
    \/ StartTLSHandshake
    \/ Quit
    \/ QuitCommand
    \/ QuitReply
    \/ Close
    \/ CallerReturn

SpecTLS == InitTLS /\ [][NextTLS]_vars

C14_OneActiveTransport ==
    /\ reader = conn
    /\ writer = conn
    /\ (Returned("starttls") /\ ret = NoErr) => (tls /\ conn.layer = "tls")
    /\ tls => (conn.layer = "tls" /\ lastIO \in {NilConn, conn})

C14_Witness ==
    /\ tls
    /\ Returned("quit")
    /\ ret = NoErr
    /\ lastLine.cmd = "QUIT"
    /\ lastIO = TLSConn(1)

(* C15: with skip_verify = false StartTLS succeeds only when the server's *)
(* certificate verifies.                                                   *)
C15_VerifiesUnlessOptedOut ==
    (Returned("starttls") /\ ret = NoErr /\ ~opts.skip_verify) => certValid

(* C18: a second Close on a client whose transport the first Close has    *)
(* closed returns no error and does not close the transport again.         *)
C18_CloseIdempotent ==
    (/\ Returned("close")
     /\ \E i \in 1 .. Len(steps) : steps[i].op = "close")
    => /\ ret = NoErr
       /\ \A i, j \in 1 .. Len(closes) : closes[i] = closes[j] => i = j

(* Ehlo, called again and again on a connected client *)
InitEhlo ==
    /\ Connected
    /\ NoMain

NextEhlo ==
    \/ Ehlo
    \/ EhloCommand
    \/ EhloReply
    \/ EhloParse
    \/ CallerReturn

SpecEhlo == InitEhlo /\ [][NextEhlo]_vars

(* some 250 line of resp has exactly the keyword k / starts with k *)
HasKeyword(resp, k) ==
    \E i \in 1 .. Len(resp) :
       resp[i].is250 /\ resp[i].text.kw = k /\ resp[i].text.tail = ""
StartsWith(resp, k) ==
    \E i \in 1 .. Len(resp) : resp[i].is250 /\ resp[i].text.kw = k

(* the fields after the keyword k on the last line that has it *)
ArgsOf(resp, k) ==
    LET I == {i \in 1 .. Len(resp) :
                resp[i].is250 /\ resp[i].text.kw = k
                  /\ resp[i].text.tail = ""}
    IN IF I = {} THEN <<>>
       ELSE resp[CHOOSE i \in I : \A j \in I : j <= i].text.args

(* the capability set a reply advertises, keyword by keyword *)
AdvertisedCaps(resp) ==
    [Pipelining |-> HasKeyword(resp, "PIPELINING"),
     StartTLS |-> HasKeyword(resp, "STARTTLS"),
     Auth |-> ArgsOf(resp, "AUTH"),
     Size |-> IF ArgsOf(resp, "SIZE") = <<>> THEN 0
              ELSE Atoi(ArgsOf(resp, "SIZE")[1]),
     EightBit |-> HasKeyword(resp, "8BITMIME")]

(* C19: a successful Ehlo leaves the capability set its reply advertises: *)
(* pipelining iff a PIPELINING line, startTLS iff STARTTLS, eightBitMime   *)
(* iff 8BITMIME, authMechanisms the list after AUTH, maxSize the number    *)
(* after SIZE.                                                             *)
C19_CapabilitiesAsAdvertised ==
    [][pc = "ehlo_parse" => capabilities' = AdvertisedCaps(response)]_vars

(* C20: after a successful Ehlo the capability set is a function of that  *)
(* EHLO's reply alone: nothing an earlier reply advertised stays unless    *)
(* the latest reply has a line for it.                                     *)
C20_CapabilitiesReplaced ==
    [][pc = "ehlo_parse"
       => /\ capabilities' = parseLines(NoCapabilities, response)
          /\ capabilities'.Pipelining => StartsWith(response, "PIPELINING")
          /\ capabilities'.StartTLS => StartsWith(response, "STARTTLS")
          /\ capabilities'.EightBit => StartsWith(response, "8BITMIME")
          /\ capabilities'.Auth # <<>> => StartsWith(response, "AUTH")
          /\ capabilities'.Size # 0 => StartsWith(response, "SIZE")]_vars

C20_Witness ==
    /\ Returned("ehlo")
    /\ ret = NoErr
    /\ steps # <<>>
    /\ steps[Len(steps)] = [op |-> "ehlo", ok |-> TRUE, pipelining |-> TRUE]
    /\ capabilities = [NoCapabilities EXCEPT !.EightBit = TRUE]

----------------------------------------------------------------------------
(* A run of main: lines 244-245 have made the client and set its retry    *)
(* policy from the 'retries' and 'timeout' options                        *)

MainOpts ==
    {[NoOpts EXCEPT !.starttls = s, !.auth_type = a, !.username = u,
                    !.password = "secret", !.server = "mx", !.from = "f",
                    !.to = "a", !.subject = "s", !.body = "text"] :
        s \in BOOLEAN, a \in {"", "plain"}, u \in {"", "user"}}

InitMain ==
    /\ conn = NilConn
    /\ reader = NilConn
    /\ writer = NilConn
    /\ retry \in {setRetryConfigValue(m, DefaultTimeout) :
                    m \in 1 .. MaxSendAttempts}
    /\ timeout = DefaultTimeout
    /\ hostname = "localhost"
    /\ debug = FALSE
    /\ capabilities = NoCapabilities
    /\ tls = FALSE
    /\ NoEnv
    /\ Quiescent
    /\ mainPc = "connect"
    /\ opts \in {o \in MainOpts : o.auth_type = "" => o.username = ""}
    /\ certValid = TRUE
    /\ msg = [From |-> "f", To |-> <<"a">>, Cc |-> <<>>, Bcc |-> <<>>,
              Subject |-> "s", Body |-> "text", HTMLBody |-> "",
              Attachments |-> 0, DateSet |-> TRUE]

NextMain ==
    \/ Connect
    \/ RetryLoop
    \/ RetryFnReturn
    \/ ConnectReuse
    \/ ConnectDial
    \/ ConnectGreeting
    \/ Ehlo
    \/ EhloCommand
    \/ EhloReply
    \/ EhloParse
    \/ StartTLS
    \/ StartTLSCommand
    \/ StartTLSReply
    \/ StartTLSHandshake
    \/ MainCredentialsMissing
    \/ Authenticate
    \/ AuthCommand
    \/ AuthPlainResponse
    \/ AuthPlainReply
    \/ SendMessage
    \/ MailFromSend
    \/ MailFromReply
    \/ RcptToSend
    \/ RcptToReply
    \/ SeqData
    \/ SeqDataReply
    \/ SeqPayload
    \/ SeqTerminator
    \/ SeqFinalReply
    \/ PipMailFrom
    \/ PipRcptTo
    \/ PipData
    \/ PipMailReply
    \/ PipRcptReply
    \/ PipDataReply
    \/ PipPayload
    \/ PipTerminator
    \/ PipFinalReply
    \/ Quit
    \/ QuitCommand
    \/ QuitReply
    \/ Close
    \/ MainCheck

SpecMain == InitMain /\ [][NextMain]_vars

(* the steps of a whole run with options o, in order *)
ExpectedOrder(o) ==
    <<"connect", "ehlo">>
    \o (IF o.starttls THEN <<"starttls", "ehlo">> ELSE <<>>)
    \o (IF o.auth_type # "" THEN <<"authenticate">> ELSE <<>>)
    \o <<"send message", "quit", "close">>

StepNames == [i \in 1 .. Len(steps) |-> steps[i].op]

(* C16: the steps main has made are a prefix of Connect, EHLO, [STARTTLS, *)
(* EHLO], [AUTH], message transaction, QUIT in that order; every step      *)
(* before the last one made returned nil, a step runs only when all steps  *)
(* made before it returned nil, and once a step has failed nothing is      *)
(* written any more.                                                       *)
C16_StepsGated ==
    /\ IsPrefix(StepNames, ExpectedOrder(opts))
    /\ \A i \in 1 .. Len(steps) - 1 : steps[i].ok
    /\ pc # "idle" =>
          (/\ \A i \in 1 .. Len(steps) : steps[i].ok
           /\ Len(steps) < Len(ExpectedOrder(opts))
           /\ mainPc = ExpectedOrder(opts)[Len(steps) + 1])
    /\ (steps # <<>> /\ ~steps[Len(steps)].ok /\ steps[Len(steps)].op # "close")
          => (mainPc = "exited" /\ pc = "idle" /\ ret = Pending)

C16_Witness ==
    /\ mainPc = "done"
    /\ opts.starttls
    /\ opts.auth_type = "plain"
    /\ tls
    /\ StepNames = <<"connect", "ehlo", "starttls", "ehlo", "authenticate",
                     "send message", "quit", "close">>
    /\ \A i \in 1 .. Len(steps) : steps[i].ok

(* C17: a run that has connected does not end without a call of Close.    *)
C17_CloseOnEveryExit ==
    (mainPc \in {"exited", "done"} /\ steps # <<>> /\ steps[1].ok)
    => closes # <<>>

----------------------------------------------------------------------------
(* the text of line l is exactly one of the five keywords, followed by    *)
(* nothing or by further fields                                           *)
Keywords == {"PIPELINING", "STARTTLS", "AUTH", "SIZE", "8BITMIME"}
ExactKeyword(l) == l.is250 /\ l.text.kw \in Keywords /\ l.text.tail = ""

(* C21: a reply line whose keyword is not exactly PIPELINING, STARTTLS,   *)
(* AUTH, SIZE or 8BITMIME (the domain line, a keyword that only begins    *)
(* with one of them such as AUTH=LOGIN) changes no field: the set Ehlo     *)
(* leaves is the set its lines with an exact keyword give.                 *)
C21_OtherLinesChangeNothing ==
    [][pc = "ehlo_parse"
       => capabilities' = parseLines(NoCapabilities,
                                     SelectSeq(response, ExactKeyword))]_vars

(* C22: the client reads a reply up to its final line before it treats    *)
(* the reply as complete: in the sequential strategy a line is written     *)
(* after a read only when the line read last was a final line, so no       *)
(* continuation line is left to be taken for a later reply.                *)
C22_ReplyReadToFinalLine ==
    [][(op = "send message" /\ Len(sent') > Len(sent) /\ lastLine # NoLine)
       => lastLine.final]_vars

(* C23: in Authenticate no line is written before a reply to the line     *)
(* written before it has been read: when the k+1st line goes out, at       *)
(* least k lines have been read.                                           *)
C23_AuthReadsBeforeNextLine ==
    [][(op = "authenticate" /\ Len(sent') > Len(sent))
       => nreads >= Len(sent)]_vars

(* C24: in CRAM-MD5, when the line read after the AUTH announcement is    *)
(* the continuation reply "334 <challenge>", decoding does not fail:       *)
(* Authenticate does not return the response-generation error and goes on  *)
(* to send a response line.                                                *)
C24_CramChallengeDecoded ==
    [][(pc = "auth_chal" /\ lastLine' = [cmd |-> "AUTH", code |-> 3,
                                         final |-> TRUE])
       => (pc' = "auth_cram" /\ ret' = Pending)]_vars

(* C25: once the server has answered with a 4xx/5xx line, Authenticate     *)
(* writes no further line.                                                 *)
C25_AuthAbortsOnRejection ==
    [][(op = "authenticate" /\ lastLine.code \in {4, 5})
       => sent' = sent]_vars

(* C26: Authenticate called with an empty username or an empty password   *)
(* returns an error and sends nothing.                                     *)
C26_EmptyCredentialsRejected ==
    (/\ op = "authenticate"
     /\ authArgs # NoAuth
     /\ (authArgs.username = "" \/ authArgs.password = ""))
    => /\ sent = <<>>
       /\ Returned("authenticate") => ret # NoErr

C28_NoRetryOfBuildFailure ==
    [][(pc = "fn_ret" /\ err = Err("failed to build message"))
       => (pc' = "idle" /\ attempt' = attempt)]_vars

----------------------------------------------------------------------------
(* A run of main from its options, without STARTTLS and authentication:   *)
(* the options name one address or none per recipient list, give subject   *)
(* and body or omit both, and set 'retries' and 'timeout'                  *)

TimeoutOpt == {5, DefaultTimeout}    \* seconds; 'timeout' option

RunOpts ==
    {[NoOpts EXCEPT !.server = "mx", !.from = f, !.to = t, !.cc = c,
                    !.bcc = b, !.subject = s[1], !.body = s[2],
                    !.retries = m, !.timeout = o] :
        f \in {"", "f"}, t \in {"", "a"}, c \in {"", "b"}, b \in {"", "b"},
        s \in {<<"", "">>, <<"s", "text">>}, m \in 1 .. MaxSendAttempts,
        o \in TimeoutOpt}

InitRun ==
    /\ NewSMTPClient("localhost", FALSE)
    /\ NoEnv
    /\ Quiescent
    /\ mainPc = "args"
    /\ opts \in {o \in RunOpts :
                   /\ Len(allRecipients(mainMessage(o))) <= 1
                   /\ o.from = "" => o.to = "a"}
    /\ certValid = TRUE
    /\ msg = NoMessage

NextRun ==
    \/ MainSetup
    \/ Connect
    \/ RetryLoop
    \/ RetryFnReturn
    \/ ConnectReuse
    \/ ConnectDial
    \/ ConnectGreeting
    \/ Ehlo
    \/ EhloCommand
    \/ EhloReply
    \/ EhloParse
    \/ SendMessage
    \/ MailFromSend
    \/ MailFromReply
    \/ RcptToSend
    \/ RcptToReply
    \/ SeqData
    \/ SeqDataReply
    \/ SeqPayload
    \/ SeqTerminator
    \/ SeqFinalReply
    \/ PipMailFrom
    \/ PipRcptTo
    \/ PipData
    \/ PipMailReply
    \/ PipRcptReply
    \/ PipDataReply
    \/ PipPayload
    \/ PipTerminator
    \/ PipFinalReply
    \/ Quit
    \/ QuitCommand
    \/ QuitReply
    \/ Close
    \/ MainCheck

SpecRun == InitRun /\ [][NextRun]_vars

(* C29: the timeout Connect dials with (and sets as the deadline) is the  *)
(* 'timeout' option of the run, whatever its value.                        *)
C29_DialUsesTimeoutOption ==
    [][(mainPc = "connect" /\ pc = "conn_check" /\ dialed')
       => timeout = opts.timeout]_vars

(* C30: a run that gives server, from and a recipient in To, Cc or Bcc is  *)
(* not refused for a missing field: once DATA has been answered, its       *)
(* message builds and the payload is written.                              *)
C30_RequiredInputsSuffice ==
    [][(/\ mainPc = "send message"
        /\ pc \in {"seq_build", "pip_build"}
        /\ requiredGiven(opts))
       => (Build(msg).err = NoErr /\ Len(sent') = Len(sent) + 1)]_vars

----------------------------------------------------------------------------
(* Validate and Build on the messages a user of the package can make      *)

BodyTexts == {"", "text", "a\r\n.\r\nb", "a\r\n..b"}

BuildMessages ==
    {[From |-> f, To |-> t, Cc |-> c, Bcc |-> <<>>, Subject |-> s,
      Body |-> b, HTMLBody |-> h, Attachments |-> n, DateSet |-> d] :
        f \in {"", "f"}, t \in SeqsUpTo(Addr, MaxTo), c \in {<<>>, <<"b">>},
        s \in {"", "s"}, b \in BodyTexts, h \in {"", "<p>"}, n \in 0 .. 1,
        d \in BOOLEAN}

InitBuild ==
    /\ NewSMTPClient("localhost", FALSE)
    /\ NoEnv
    /\ Quiescent
    /\ NoMain
    /\ msg \in BuildMessages

NextBuild ==
    \/ ValidateCall
    \/ BuildCall

SpecBuild == InitBuild /\ [][NextBuild]_vars

(* C31: the payload is dot-stuffed: whatever the body, no line of the     *)
(* text Build returns is a single ".".                                     *)
C31_PayloadDotStuffed ==
    (Returned("build") /\ ret = NoErr)
    => \A i \in 1 .. Len(BuildText(msg)) : BuildText(msg)[i] # DotLine

(* C39: Validate returns nil iff From, To and Subject are non-empty, one  *)
(* of Body, HTMLBody, Attachments is non-empty and Date is set; otherwise  *)
(* it returns the error of the first failing check in the order from,      *)
(* recipient, subject, body, date.                                         *)
C39_ValidateFirstFailure ==
    Returned("validate")
    => LET failing ==
             <<msg.From = "", Len(msg.To) = 0, msg.Subject = "",
               msg.Body = "" /\ msg.HTMLBody = "" /\ msg.Attachments = 0,
               ~msg.DateSet>>
           errors ==
             <<Err("from address is required"),
               Err("at least one recipient is required"),
               Err("subject is required"), Err("body is required"),
               Err("date is required")>>
           F == {i \in 1 .. 5 : failing[i]}
       IN IF F = {} THEN ret = NoErr
          ELSE ret = errors[CHOOSE i \in F : \A j \in F : i <= j]

C39_Witness ==
    /\ Returned("validate")
    /\ msg.From = ""
    /\ msg.To = <<>>
    /\ msg.Subject = ""
    /\ ret = Err("from address is required")

(* C32: no command line is written while the server is receiving data:   *)
(* once the server has answered DATA with 354 and until it has had the    *)
(* terminator, the only lines written are the payload and the terminator,  *)
(* also when an attempt failed after DATA and another attempt follows.     *)
C32_NoCommandIntoData ==
    [][(/\ op \in SendOps
        /\ srvMode = "data"
        /\ Len(sent') > Len(sent)
        /\ srvIn' = Append(srvIn, sent'[Len(sent')]))
       => sent'[Len(sent')].cmd \in {"PAYLOAD", "."}]_vars

(* C33: for every retry policy that can be set, withRetry returns        *)
(* success only when the operation was invoked at least once and its last  *)
(* invocation returned no error.                                           *)
C33_SuccessNeedsInvocation ==
    (pc = "idle" /\ op \in RetryOps /\ ret = NoErr)
    => (calls >= 1 /\ calls = fails + 1 /\ err = NoErr)

(* C34: in a run where STARTTLS is requested, every AUTH line, credential *)
(* line, MAIL FROM, RCPT TO, DATA and payload is written through the TLS   *)
(* transport, never through the plaintext one, whatever the server         *)
(* replies.                                                                *)
C34_SecretsOnlyOverTLS ==
    [][(/\ opts.starttls
        /\ Len(sent') > Len(sent)
        /\ sent'[Len(sent')].cmd \in
              {"AUTH", "CRED", "MAIL", "RCPT", "DATA", "PAYLOAD"})
       => (writer.layer = "tls" /\ lastIO' = writer)]_vars

C34_Witness ==
    /\ opts.starttls
    /\ opts.auth_type = "plain"
    /\ mainPc = "send message"
    /\ Called("starttls")
    /\ Called("authenticate")
    /\ op \in SendOps
    /\ Written("PAYLOAD")
    /\ lastIO = TLSConn(conn.sock)
    /\ srvIn # <<>>

(* C35: in a pipelined attempt MAIL FROM, the RCPT TO commands and DATA   *)
(* reach the transport by one flush: when a RCPT TO or DATA is written in  *)
(* the first attempt, no line has been handed to the transport yet.        *)
C35_PipelinedSingleFlush ==
    [][(/\ op = "send pipelined message"
        /\ attempt = 1
        /\ Len(sent') > Len(sent)
        /\ sent'[Len(sent')].cmd \in {"RCPT", "DATA"})
       => srvIn = <<>>]_vars

----------------------------------------------------------------------------
(* Connect, StartTLS and Close in any order on one client, used as a      *)
(* library, MaxCalls calls at most                                         *)

ConnectCall ==
    /\ CallerAllows("connect")
    /\ Connect

InitLifecycle == InitConnect

NextLifecycle ==
    \/ ConnectCall
    \/ RetryLoop
    \/ RetryFnReturn
    \/ ConnectReuse
    \/ ConnectDial
    \/ ConnectGreeting
    \/ StartTLS
    \/ StartTLSCommand
    \/ StartTLSReply
    \/ StartTLSHandshake
    \/ Close
    \/ CallerReturn

SpecLifecycle == InitLifecycle /\ [][NextLifecycle]_vars

(* C36: over any sequence of Connect, StartTLS and Close calls at most    *)
(* one connection the client opened is open, and it is the one the client  *)
(* holds: Connect dials only when the client holds no transport, and a     *)
(* transport whose greeting read failed is closed when the attempt         *)
(* returns.                                                                *)
C36_OneConnectionOpen ==
    /\ Cardinality(netOpen) <= 1
    /\ netOpen \subseteq {conn.sock}
    /\ (pc = "fn_ret" /\ dialed /\ err = Err("failed to read server greeting"))
          => netOpen = {}

C36_Witness ==
    /\ Len(steps) = 2
    /\ steps[1].op = "connect"
    /\ steps[1].ok
    /\ steps[2].op = "starttls"
    /\ op = "connect"
    /\ pc = "fn_ret"
    /\ ~dialed
    /\ dials = 1
    /\ netOpen = {1}

(* C37: when Ehlo returns an error the capability set is what it was    *)
(* before the call: the set changes only in the step that parses a reply   *)
(* and returns nil, and after a failed Ehlo SendMessage would choose the   *)
(* strategy it would have chosen before it.                                *)
C37_FailedEhloKeepsCapabilities ==
    [][/\ capabilities' # capabilities
          => (pc = "ehlo_parse" /\ ret' = NoErr)
       /\ (op = "ehlo" /\ pc # "idle" /\ pc' = "idle" /\ ret' # NoErr)
          => usesPipelining(capabilities')
               = (steps # <<>> /\ steps[Len(steps)].pipelining)]_vars

C37_Witness ==
    /\ Returned("ehlo")
    /\ ret = Err("server rejected EHLO")
    /\ steps = <<[op |-> "ehlo", ok |-> TRUE, pipelining |-> TRUE]>>
    /\ capabilities = [NoCapabilities EXCEPT !.Pipelining = TRUE]

(* C38: SendMessage and SendMessagePipelined delegate to each other      *)
(* without looping: for either value of the pipelining capability a call   *)
(* of either one reaches the transaction body of the strategy after at     *)
(* most one delegation, and the body is invoked at most MaxAttempts times. *)
C38_DelegationEnds ==
    LET p == usesPipelining(capabilities)
        body == IF p THEN "pipelined body" ELSE "sendMessageNonPipelined"
    IN /\ \A entry \in {"SendMessage", "SendMessagePipelined"} :
            LET path == delegation(entry, p, MaxDelegations)
            IN Len(path) <= 3 /\ path[Len(path)] = body
       /\ op \in SendOps
            => /\ op = IF p THEN "send pipelined message" ELSE "send message"
               /\ calls <= retry.MaxAttempts
               /\ attempt <= retry.MaxAttempts

C38_Witness ==
    /\ Returned("send message")
    /\ ~usesPipelining(capabilities)
    /\ delegation("SendMessagePipelined", FALSE, MaxDelegations)
         = <<"SendMessagePipelined", "SendMessage", "sendMessageNonPipelined">>
    /\ retry.MaxAttempts = 2
    /\ calls = 2
    /\ fails = 2
    /\ Written("DATA")


(* C40: a client on which no setter was called has the retry policy        *)
(* {3, 2 s} and the timeout 30 s; a SetRetryConfig(m, d) step leaves the   *)
(* retry policy exactly {m, d} and a SetTimeout(t) step leaves the timeout *)
(* t; each of them changes no other field of the client (the other of the *)
(* two, hostname, debug, conn, reader, writer, tls, capabilities).         *)
C40_SettersChangeOnlyTheirField ==
    [][/\ setArgs = NoArgs =>
            /\ retry = [MaxAttempts |-> DefaultMaxAttempts,
                        Delay |-> DefaultDelay]
            /\ timeout = DefaultTimeout
       /\ (pc = "idle" /\ op' = "SetRetryConfig") =>
            /\ retry' = [MaxAttempts |-> setArgs'[1], Delay |-> setArgs'[2]]
            /\ UNCHANGED <<timeout, hostname, debug, conn, reader, writer,
                           tls, capabilities>>
       /\ (pc = "idle" /\ op' = "SetTimeout") =>
            /\ timeout' = setArgs'[1]
            /\ UNCHANGED <<retry, hostname, debug, conn, reader, writer,
                           tls, capabilities>>]_vars

(* SetTimeout(60) has returned on a client whose policy SetRetryConfig(0,  *)
(* 5) had set before                                                       *)
C40_Witness ==
    /\ op = "SetTimeout"
    /\ setArgs = <<60>>
    /\ timeout = 60
    /\ retry = [MaxAttempts |-> 0, Delay |-> 5]
    /\ hostname = "client.example.org"
    /\ debug
====
